---- MODULE Spec2Model ----
(***************************************************************************)
(* Model of the cassandra_cpp Ruby extension (ext/cassandra_cpp): the      *)
(* wrapper objects the extension hands to the host (cluster, session,      *)
(* prepared statement, statement, batch, future), the native handles they  *)
(* own, the host garbage collector that finalizes unreachable wrappers,    *)
(* and the asynchronous bridge (NativeFuture).                             *)
(***************************************************************************)
EXTENDS Integers, Sequences, FiniteSets, TLC

VARIABLES
    heap,      \* the wrapper objects, by object id 1..Len(heap)
    sessions,  \* the native CassSession handles, by handle id
    faults,    \* history: misuses of native handles that have happened
    observing, \* whether the host-side history below is being recorded
    lastOp,    \* history: the extension method that ran last, with its block
    returned,  \* history: what each future.value call returned or raised
    fired,     \* history: every continuation invocation (rb_funcall "call")
    decodes    \* history: the future whose outcome each decode decoded

vars == <<heap, sessions, faults, observing, lastOp, returned, fired, decodes>>

\* ------------------------------------------------------------------ bounds
MaxObjects == 4     \* wrapper objects ever allocated, the cluster included
MaxSessions == 2    \* native sessions ever created by connect
MaxCalls == 2       \* logged future.value calls and continuation invocations
MaxLen == 3         \* elements of a collection the host binds

\* ------------------------------------------------------------- vocabulary
Nil == "nil"
Blocks == {"c1", "c2"}            \* the blocks a host passes to then/rescue
Messages == {"timeout on node"}   \* error messages the driver reports

FUTURE_TYPE_EXECUTE == "FUTURE_TYPE_EXECUTE"
FUTURE_TYPE_PREPARE == "FUTURE_TYPE_PREPARE"

\* The parameter markers of the query the host prepares: cass_prepared_bind
\* makes a statement with one slot for each.
Markers == <<"?", "?">>

\* ------------------------------------------------------------- integers
\* INT32_MAX of <limits.h>; INT32_MIN is -INT32_MAX - 1.
INT32_MAX == 2147483647

\* An integer of any width, a * 2^62 + b * 2^31 + c with 0 <= b, c <= INT32_MAX:
\* a is 0 or -1 for a Fixnum (63 bits), -2..1 for what fits 64 bits.
Num(a, b, c) == [a |-> a, b |-> b, c |-> c]
Small(n) == IF n < 0 THEN Num(-1, INT32_MAX, (n + INT32_MAX) + 1) ELSE Num(0, 0, n)
NumLeq(x, y) ==
    \/ x.a < y.a
    \/ x.a = y.a /\ x.b < y.b
    \/ x.a = y.a /\ x.b = y.b /\ x.c <= y.c
INT32_MIN_Num == Num(-1, INT32_MAX, 0)
INT32_MAX_Num == Num(0, 0, INT32_MAX)
\* FIXNUM_P: the value is an immediate (63-bit) integer, not a Bignum.
FIXNUM_P(n) == n.a \in {-1, 0}
\* NUM2LL raises RangeError outside the long long range.
FitsInt64(n) == n.a \in -2..1

\* -------------------------------------------------------------- strings
\* A string is the sequence of its bytes, one symbol a byte; NUL is the
\* null byte, and the symbols "\\xC3" and "\\xA9" are bytes above 127.
NUL == "\\0"
HexDigits == {"0", "1", "2", "3", "4", "5", "6", "7", "8", "9",
              "a", "b", "c", "d", "e", "f", "A", "B", "C", "D", "E", "F"}
\* A faulty variant of HasNul: only the first byte is looked at.
HasNulAtStart(str) == Len(str) > 0 /\ str[1] = NUL
HasNul(str) == \E i \in 1..Len(str) : str[i] = NUL
AsciiOnly(str) == \A i \in 1..Len(str) : str[i] \notin {"\\xC3", "\\xA9"}
\* len == 36 && str[8] == '-' && str[13] == '-' && str[18] == '-' && str[23] == '-'
UuidShaped(str) ==
    /\ Len(str) = 36
    /\ str[9] = "-" /\ str[14] = "-" /\ str[19] = "-" /\ str[24] = "-"
\* A faulty variant of cass_uuid_from_string: any 36 characters parse.
cass_uuid_from_string_any(str) == Len(str) = 36

\* cass_uuid_from_string: 36 characters, hex digits of either case around
\* the four dashes.
cass_uuid_from_string(str) ==
    /\ UuidShaped(str)
    /\ \A i \in 1..36 : i \notin {9, 14, 19, 24} => str[i] \in HexDigits
\* cass_uuid_string prints the uuid in lower case.
LowerCase(ch) ==
    CASE ch = "A" -> "a" [] ch = "B" -> "b" [] ch = "C" -> "c"
      [] ch = "D" -> "d" [] ch = "E" -> "e" [] ch = "F" -> "f"
      [] OTHER -> ch
cass_uuid_string(str) == [i \in 1..Len(str) |-> LowerCase(str[i])]

\* ------------------------------------------------ wire and host values
\* A CassValue: its value type, whether it is null, and its payload: i for
\* the integer types and booleans, s for the string-like types and doubles,
\* items for the elements of a collection (a map's keys and values in turn).
WireValue(t, isnull, i, s) ==
    [type |-> t, null |-> isnull, i |-> i, s |-> s, items |-> <<>>]
WireInt(n) == WireValue("INT", FALSE, n, <<>>)
\* A faulty variant of WireBigint: the value is cast to int on the way.
WireBigintCastToInt(n) == WireValue("BIGINT", FALSE, Num(0, 0, n.c), <<>>)
WireBigint(n) == WireValue("BIGINT", FALSE, n, <<>>)
WireText(s) == WireValue("TEXT", FALSE, Small(0), s)
WireBool(b) == WireValue("BOOLEAN", FALSE, Small(IF b THEN 1 ELSE 0), <<>>)
WireNull(t) == WireValue(t, TRUE, Small(0), <<>>)
WireCollection(t, items) == [WireValue(t, FALSE, Small(0), <<>>) EXCEPT !.items = items]

\* A Ruby VALUE: its class, and i, s, items as for a CassValue; enc is a
\* String's encoding. A Hash keeps its keys and values in turn, in
\* insertion order; a Set its elements in to_a order.
HostValue(t, i, s) ==
    [t |-> t, i |-> i, s |-> s, enc |-> "ASCII-8BIT", items |-> <<>>]
Qnil == HostValue("NilClass", Small(0), <<>>)
Qtrue == HostValue("TrueClass", Small(0), <<>>)
Qfalse == HostValue("FalseClass", Small(0), <<>>)
\* rb_str_new / rb_str_new_cstr: the bytes, tagged ASCII-8BIT.
rb_str_new(s) == HostValue("String", Small(0), s)
HostString(s, enc) == [rb_str_new(s) EXCEPT !.enc = enc]
HostInteger(n) == HostValue("Integer", n, <<>>)
HostFloat(s) == HostValue("Float", Small(0), s)
HostCollection(t, items) == [HostValue(t, Small(0), <<>>) EXCEPT !.items = items]

\* rb_hash_aset on a Hash kept as keys and values in turn.
RECURSIVE MapAset(_, _, _)
MapAset(items, k, v) ==
    IF items = <<>> THEN <<k, v>>
    ELSE IF items[1] = k THEN <<k, v>> \o SubSeq(items, 3, Len(items))
    ELSE <<items[1], items[2]>> \o MapAset(SubSeq(items, 3, Len(items)), k, v)

\* Set#add on a Set kept as its elements in insertion order.
SetAdd(items, e) ==
    IF \E i \in 1..Len(items) : items[i] = e THEN items ELSE Append(items, e)

\* common.cpp convert_cass_value_to_ruby. INET stands for the types the
\* switch does not handle. A map iterator yields whole pairs only.
RECURSIVE convert_cass_value_to_ruby(_)
RECURSIVE ConvertList(_, _)
RECURSIVE ConvertSet(_, _)
RECURSIVE ConvertMap(_, _)
\* A faulty variant of ConvertList: each item is put in front of the array.
ConvertListPrepending(items, array) ==
    LET RECURSIVE Loop(_, _)
        Loop(rest, acc) ==
            IF rest = <<>> THEN acc
            ELSE Loop(Tail(rest), <<convert_cass_value_to_ruby(Head(rest))>> \o acc)
    IN  Loop(items, array)
ConvertList(items, array) ==
    IF items = <<>> THEN array
    ELSE ConvertList(Tail(items), Append(array, convert_cass_value_to_ruby(Head(items))))
ConvertSet(items, set) ==
    IF items = <<>> THEN set
    ELSE ConvertSet(Tail(items), SetAdd(set, convert_cass_value_to_ruby(Head(items))))
ConvertMap(items, hash) ==
    IF Len(items) < 2 THEN hash
    ELSE ConvertMap(SubSeq(items, 3, Len(items)),
                    MapAset(hash, convert_cass_value_to_ruby(items[1]),
                                  convert_cass_value_to_ruby(items[2])))
convert_cass_value_to_ruby(value) ==
    IF value.null THEN Qnil
    ELSE CASE value.type \in {"TEXT", "VARCHAR"} -> rb_str_new(value.s)
           [] value.type \in {"INT", "BIGINT"} -> HostInteger(value.i)
           [] value.type = "BOOLEAN" ->
                 IF value.i # Small(0) THEN Qtrue ELSE Qfalse
           [] value.type = "UUID" -> rb_str_new(cass_uuid_string(value.s))
           [] value.type \in {"FLOAT", "DOUBLE"} -> HostFloat(value.s)
           [] value.type = "TIMESTAMP" -> HostValue("Time", value.i, <<>>)
           [] value.type = "DECIMAL" -> HostValue("BigDecimal", Small(0), <<"0">>)
           [] value.type = "BLOB" -> rb_str_new(value.s)
           [] value.type \in {"LIST", "TUPLE"} ->
                 HostCollection("Array", ConvertList(value.items, <<>>))
           [] value.type = "SET" ->
                 HostCollection("Set", ConvertSet(value.items, <<>>))
           [] value.type = "MAP" ->
                 HostCollection("Hash", ConvertMap(value.items, <<>>))
           [] OTHER -> rb_str_new(<<"[", "u", "n", "s", "u", "p", "p", "o", "r", "t",
                                    "e", "d", " ", "t", "y", "p", "e", "]">>)

\* --------------------------------------------------------------- encoding
\* Integer#to_s for the integers printed here (31 bits at most).
DigitChars == <<"0", "1", "2", "3", "4", "5", "6", "7", "8", "9">>
RECURSIVE Decimal(_)
Decimal(n) ==
    IF n < 10 THEN <<DigitChars[n + 1]>>
    ELSE Decimal(n \div 10) \o <<DigitChars[(n % 10) + 1]>>
IntegerToS(n) ==
    CASE n.a = 0 /\ n.b = 0 -> Decimal(n.c)
      [] n.a = -1 /\ n.b = INT32_MAX /\ n.c > 0 ->
            <<"-">> \o Decimal((INT32_MAX - n.c) + 1)

\* rb_obj_as_string (to_s): an Array prints as its inspect, "[1, \"a\"]", a
\* Hash as "{1=>2}", a Set as "#<Set: {1}>"; nil.to_s is empty, nil.inspect
\* is "nil".
RECURSIVE Inspect(_)
RECURSIVE InspectItems(_)
RECURSIVE InspectPairs(_)
InspectItems(items) ==
    IF items = <<>> THEN <<>>
    ELSE IF Len(items) = 1 THEN Inspect(items[1])
    ELSE Inspect(items[1]) \o <<",", " ">> \o InspectItems(Tail(items))
InspectPairs(items) ==
    IF Len(items) < 2 THEN <<>>
    ELSE Inspect(items[1]) \o <<"=", ">">> \o Inspect(items[2])
         \o (IF Len(items) > 2
             THEN <<",", " ">> \o InspectPairs(SubSeq(items, 3, Len(items)))
             ELSE <<>>)
Inspect(value) ==
    CASE value.t = "NilClass" -> <<"n", "i", "l">>
      [] value.t = "String" -> <<"\"">> \o value.s \o <<"\"">>
      [] value.t = "Integer" -> IntegerToS(value.i)
      [] value.t = "TrueClass" -> <<"t", "r", "u", "e">>
      [] value.t = "FalseClass" -> <<"f", "a", "l", "s", "e">>
      [] value.t = "Array" -> <<"[">> \o InspectItems(value.items) \o <<"]">>
      [] value.t = "Hash" -> <<"{">> \o InspectPairs(value.items) \o <<"}">>
      [] value.t = "Set" ->
            <<"#", "<", "S", "e", "t", ":", " ", "{">>
            \o InspectItems(value.items) \o <<"}", ">">>
      [] OTHER -> value.s
rb_obj_as_string(value) ==
    IF value.t \in {"Array", "Hash", "Set"} THEN Inspect(value) ELSE value.s

\* What an encoding step yields: rc is CASS_OK, a driver error code, or the
\* class of the Ruby exception raised on the way; out is what was appended.
Encoded(rc, out) == [rc |-> rc, out |-> out]
CASS_OK_rc == "CASS_OK"

\* StringValueCStr raises ArgumentError on a string with a null byte.
StringValueCStr(str, then) ==
    IF HasNul(str) THEN Encoded("ArgumentError", <<>>) ELSE then

\* statement.cpp bind_ruby_value_to_collection: one element appended to a
\* collection, or nothing for nil. Every class the switch does not name
\* (Array, Hash, Set among them) is appended as the text of its to_s.
bind_ruby_value_to_collection(value) ==
    IF value.t = "NilClass" THEN Encoded(CASS_OK_rc, <<>>)
    ELSE CASE value.t = "String" ->
                StringValueCStr(value.s,
                    IF UuidShaped(value.s) /\ cass_uuid_from_string(value.s)
                    THEN Encoded(CASS_OK_rc,
                            <<WireValue("UUID", FALSE, Small(0), cass_uuid_string(value.s))>>)
                    ELSE Encoded(CASS_OK_rc, <<WireText(value.s)>>))
           [] value.t = "Integer" ->
                IF FIXNUM_P(value.i)
                THEN IF NumLeq(INT32_MIN_Num, value.i) /\ NumLeq(value.i, INT32_MAX_Num)
                     THEN Encoded(CASS_OK_rc, <<WireInt(value.i)>>)
                     ELSE Encoded("RangeError", <<>>)
                ELSE IF FitsInt64(value.i)
                     THEN Encoded(CASS_OK_rc, <<WireBigint(value.i)>>)
                     ELSE Encoded("RangeError", <<>>)
           [] value.t \in {"TrueClass", "FalseClass"} ->
                Encoded(CASS_OK_rc, <<WireBool(value.t = "TrueClass")>>)
           [] value.t = "Float" ->
                Encoded(CASS_OK_rc, <<WireValue("DOUBLE", FALSE, Small(0), value.s)>>)
           [] value.t = "Time" -> Encoded(CASS_OK_rc, <<WireBigint(value.i)>>)
           [] OTHER ->
                StringValueCStr(rb_obj_as_string(value),
                    Encoded(CASS_OK_rc, <<WireText(rb_obj_as_string(value))>>))

\* A faulty variant of AppendEach: the loop ends at the first nil.
AppendEachUntilNil(items, collection) ==
    LET RECURSIVE Loop(_, _)
        Loop(rest, acc) ==
            IF rest = <<>> \/ Head(rest) = Qnil THEN Encoded(CASS_OK_rc, acc)
            ELSE LET one == bind_ruby_value_to_collection(Head(rest))
                 IN  IF one.rc # CASS_OK_rc THEN Encoded(one.rc, <<>>)
                     ELSE Loop(Tail(rest), acc \o one.out)
    IN  Loop(items, collection)

\* The loop over the elements of an Array or Set, or over the keys and
\* values of a Hash in turn: it stops at the first element that fails.
RECURSIVE AppendEach(_, _)
AppendEach(items, collection) ==
    IF items = <<>> THEN Encoded(CASS_OK_rc, collection)
    ELSE LET one == bind_ruby_value_to_collection(Head(items))
         IN  IF one.rc # CASS_OK_rc THEN Encoded(one.rc, <<>>)
             ELSE AppendEach(Tail(items), collection \o one.out)

\* A parameter slot nothing was bound to.
Unset == WireValue("UNSET", FALSE, Small(0), <<>>)

\* A faulty variant of cass_statement_bind: the value is written to the slot
\* and to every slot after it.
cass_statement_bind_filling(params, index, wire) ==
    IF index >= Len(params)
    THEN [rc |-> "CASS_ERROR_LIB_INDEX_OUT_OF_BOUNDS", params |-> params]
    ELSE IF wire.type = "MAP" /\ Len(wire.items) % 2 # 0
    THEN [rc |-> "CASS_ERROR_LIB_INVALID_ITEM_COUNT", params |-> params]
    ELSE [rc |-> CASS_OK_rc,
          params |-> [j \in 1..Len(params) |-> IF j > index THEN wire ELSE params[j]]]

\* cass_statement_bind_*: the driver checks the index against the number
\* of parameters before it writes, and refuses a map with a key or a value
\* missing.
cass_statement_bind(params, index, wire) ==
    IF index >= Len(params)
    THEN [rc |-> "CASS_ERROR_LIB_INDEX_OUT_OF_BOUNDS", params |-> params]
    ELSE IF wire.type = "MAP" /\ Len(wire.items) % 2 # 0
    THEN [rc |-> "CASS_ERROR_LIB_INVALID_ITEM_COUNT", params |-> params]
    ELSE [rc |-> CASS_OK_rc, params |-> [params EXCEPT ![index + 1] = wire]]

\* The collection branches: build the collection, then bind it.
BindCollection(params, index, type, items) ==
    LET built == AppendEach(items, <<>>)
    IN  IF built.rc # CASS_OK_rc THEN [rc |-> built.rc, params |-> params]
        ELSE cass_statement_bind(params, index, WireCollection(type, built.out))

\* statement.cpp bind_ruby_value_to_statement: the parameters after the
\* call and its error code (or the exception raised).
bind_ruby_value_to_statement(params, index, value) ==
    IF value.t = "NilClass" THEN cass_statement_bind(params, index, WireNull("NULL"))
    ELSE CASE value.t = "String" ->
                IF /\ UuidShaped(value.s)
                   /\ ~HasNul(value.s)
                   /\ cass_uuid_from_string(value.s)
                THEN cass_statement_bind(params, index,
                        WireValue("UUID", FALSE, Small(0), cass_uuid_string(value.s)))
                ELSE IF value.enc = "ASCII-8BIT" \/ HasNul(value.s)
                THEN cass_statement_bind(params, index,
                        WireValue("BLOB", FALSE, Small(0), value.s))
                ELSE cass_statement_bind(params, index, WireText(value.s))
           [] value.t = "Integer" ->
                IF FIXNUM_P(value.i)
                THEN IF NumLeq(INT32_MIN_Num, value.i) /\ NumLeq(value.i, INT32_MAX_Num)
                     THEN cass_statement_bind(params, index, WireInt(value.i))
                     ELSE cass_statement_bind(params, index, WireBigint(value.i))
                ELSE IF FitsInt64(value.i)
                     THEN cass_statement_bind(params, index, WireBigint(value.i))
                     ELSE [rc |-> "RangeError", params |-> params]
           [] value.t \in {"TrueClass", "FalseClass"} ->
                cass_statement_bind(params, index, WireBool(value.t = "TrueClass"))
           [] value.t = "Float" ->
                cass_statement_bind(params, index,
                    WireValue("DOUBLE", FALSE, Small(0), value.s))
           [] value.t = "Array" -> BindCollection(params, index, "LIST", value.items)
           [] value.t = "Hash" -> BindCollection(params, index, "MAP", value.items)
           [] value.t = "Set" -> BindCollection(params, index, "SET", value.items)
           [] value.t = "Time" -> cass_statement_bind(params, index, WireBigint(value.i))
           [] OTHER ->
                IF HasNul(rb_obj_as_string(value))
                THEN [rc |-> "ArgumentError", params |-> params]
                ELSE cass_statement_bind(params, index, WireText(rb_obj_as_string(value)))

\* cass_error_desc.
cass_error_desc(rc) ==
    CASE rc = "CASS_ERROR_LIB_INDEX_OUT_OF_BOUNDS" -> "Index out of bounds"
      [] rc = "CASS_ERROR_LIB_INVALID_ITEM_COUNT" -> "Invalid item count"
      [] OTHER -> rc

\* What statement.bind raises: nothing on CASS_OK, the exception raised
\* while the value was converted, or CassandraCpp::Error with
\* "Failed to bind parameter at index %zu: %s".
NoError == [class |-> Nil, message |-> <<>>]
BindError(idx, rc) ==
    IF rc = CASS_OK_rc THEN NoError
    ELSE IF rc \in {"RangeError", "ArgumentError"} THEN [class |-> rc, message |-> <<>>]
    ELSE [class |-> "CassandraCpp::Error",
          message |-> <<"Failed to bind parameter at index ">> \o Decimal(idx)
                      \o <<": ", cass_error_desc(rc)>>]

\* A CassResult: NULL, or column names and rows of CassValues.
NullResult == [null |-> TRUE, cols |-> <<>>, rows |-> <<>>]
TwoRowResult ==
    [null |-> FALSE, cols |-> <<"id", "name">>,
     rows |-> << <<WireInt(Small(1)), WireText(<<"a">>)>>,
               <<WireInt(Small(2)), WireNull("TEXT")>> >>]
\* Results a blocking execute returns: cass_future_get_result of a future
\* without error. No rows; two rows; three rows with collections.
EmptyResult == [null |-> FALSE, cols |-> <<"id", "name">>, rows |-> <<>>]
RowResults ==
    {EmptyResult, TwoRowResult,
     [null |-> FALSE, cols |-> <<"k", "tags", "m">>,
      rows |-> << <<WireInt(Small(3)),
                    WireCollection("LIST", <<WireText(<<"b">>), WireText(<<"a">>)>>),
                    WireCollection("MAP", <<WireText(<<"a">>), WireInt(Small(1))>>)>>,
                  <<WireInt(Small(1)), WireNull("LIST"), WireNull("MAP")>>,
                  <<WireInt(Small(2)),
                    WireCollection("LIST", <<>>),
                    WireCollection("MAP", <<>>)>> >>]}

\* A call as the host sees it: for statement.bind its arguments, the error
\* code of the conversion and what was raised; for a blocking execute the
\* error code and the result of the driver's future. made and freed name the
\* native handles the call created (cass_session_execute, cass_session_prepare,
\* cass_session_execute_batch, cass_statement_new) and those it released
\* before it returned or raised; self is the wrapper a call returned as
\* itself, recv the wrapper session.close was called on.
NoCall == [index |-> 0, value |-> Qnil, rc |-> CASS_OK_rc, raised |-> NoError,
           result |-> NullResult, made |-> <<>>, freed |-> <<>>, self |-> 0,
           recv |-> 0]
BindCall(index, value, rc) ==
    [NoCall EXCEPT !.index = index, !.value = value, !.rc = rc,
                   !.raised = BindError(index, rc)]
\* A blocking call on a future it made: raise_cassandra_error leaves through
\* rb_raise, so the cass_future_free at the end of the function runs only
\* when the error code is CASS_OK.
ExecuteCall(future) ==
    [NoCall EXCEPT !.rc = (IF future.state = "ok" THEN CASS_OK_rc ELSE "CASS_ERROR"),
                   !.result = future.result,
                   !.made = <<"future">>,
                   !.freed = (IF future.state = "ok" THEN <<"future">> ELSE <<>>)]

\* rb_hash_aset on an insertion-ordered hash, kept as a sequence of pairs.
RECURSIVE HashAset(_, _, _)
HashAset(h, k, v) ==
    IF h = <<>> THEN << <<k, v>> >>
    ELSE IF Head(h)[1] = k THEN << <<k, v>> >> \o Tail(h)
    ELSE <<Head(h)>> \o HashAset(Tail(h), k, v)

\* A faulty variant of RowToHash: the column loop ends one column early.
RowToHashShort(cols, row, i, row_hash) ==
    LET RECURSIVE Loop(_, _)
        Loop(j, h) ==
            IF j >= Len(cols) THEN h
            ELSE Loop(j + 1, HashAset(h, cols[j], convert_cass_value_to_ruby(row[j])))
    IN  Loop(i, row_hash)

\* The column loop: for (i = 0; i < column_count; i++) rb_hash_aset(...).
RECURSIVE RowToHash(_, _, _, _)
RowToHash(cols, row, i, row_hash) ==
    IF i > Len(cols) THEN row_hash
    ELSE RowToHash(cols, row, i + 1,
                   HashAset(row_hash, cols[i], convert_cass_value_to_ruby(row[i])))

\* The row loop of future_value / future_execute_callbacks: an empty array
\* when cass_future_get_result returned NULL, else one hash per native row.
DecodeRows(cass_result) ==
    IF cass_result.null THEN <<>>
    ELSE [r \in 1..Len(cass_result.rows) |->
             RowToHash(cass_result.cols, cass_result.rows[r], 1, <<>>)]

\* session.cpp convert_result_to_ruby: one hash for each row of the result.
convert_result_to_ruby(result) ==
    [r \in 1..Len(result.rows) |-> RowToHash(result.cols, result.rows[r], 1, <<>>)]

\* statement.cpp statement_execute lines 320-349: the same loop, written out.
StatementRows(result) ==
    [r \in 1..Len(result.rows) |-> RowToHash(result.cols, result.rows[r], 1, <<>>)]

\* ------------------------------------------------------------ the objects
\* A CassFuture as the driver presents it: cass_future_ready,
\* cass_future_error_code, cass_future_get_result, cass_future_error_message.
NoFuture == [state |-> "none", result |-> NullResult, msg |-> ""]
PendingFuture == [state |-> "pending", result |-> NullResult, msg |-> ""]

\* One wrapper struct with the instance variable the extension sets on it:
\*   ref   the VALUE kept in the struct (cluster_ref, session_ref, prepared_ref)
\*   iv    the instance variable (@cluster, @session, @prepared_statement)
\*   session  cluster_wrapper_t.session / session_wrapper_t.session (0 = NULL)
\*   connect_future  cluster_wrapper_t.connect_future (0 = NULL)
\*   params  the parameter slots of statement_wrapper_t.statement
\*   entries, consistency  the statements added to batch_wrapper_t.batch and
\*            the consistency level set on it
Obj(kind, ref, iv) ==
    [kind |-> kind, rooted |-> TRUE, live |-> TRUE, ref |-> ref, iv |-> iv,
     session |-> 0, connect_future |-> 0,
     future |-> NoFuture, type |-> Nil,
     callback_proc |-> Nil, error_callback_proc |-> Nil,
     params |-> <<>>, entries |-> <<>>, consistency |-> 0]

Ids == 1..Len(heap)
OfKind(k) == {o \in Ids : heap[o].kind = k}
\* The host can call a method on an object it holds a reference to.
Callable(k) == {o \in OfKind(k) : heap[o].rooted /\ heap[o].live}
\* Room for one more wrapper; a future may take one slot beyond the others, so
\* that the longest chain (cluster, session, prepared, statement) can still
\* submit an asynchronous operation, and so may a second statement of one
\* prepared statement.
HasRoom == Len(heap) < MaxObjects
HasRoomForFuture == Len(heap) < MaxObjects + 1


\* ------------------------------------------------------ garbage collector
\* A faulty variant of future_mark: session_ref is left unmarked.
future_mark_without_session(wrapper) == {}

\* future.cpp future_mark: the only mark function of the extension. The two
\* procs are host objects outside the heap modelled here.
future_mark(wrapper) == {wrapper.ref}

\* What the collector sees leaving an object: its instance variable, and for
\* a NativeFuture what future_mark marks. The other types register no mark
\* function ({ 0, xxx_free, 0 }), so their struct's VALUE is not an edge.
Edges(o) ==
    ({heap[o].iv} \cup (IF heap[o].kind = "Future" THEN future_mark(heap[o]) ELSE {}))
    \ {0}

RECURSIVE Reach(_)
Reach(S) ==
    LET T == S \cup UNION {Edges(o) : o \in S}
    IN  IF T = S THEN S ELSE Reach(T)

Roots == {o \in Ids : heap[o].rooted /\ heap[o].live}
\* The objects the host can still get at: the collector frees none of them.
Reachable == Reach(Roots)

\* rb_iv_get: nil from nil, else the instance variable.
IvGet(o) == IF o = 0 THEN 0 ELSE heap[o].iv

\* Passing h to cass_session_execute / _prepare / _execute_batch / _close.
SessionFault(h) ==
    IF h = 0 THEN {"null_session"}
    ELSE IF sessions[h] = "freed" THEN {"freed_session"}
    ELSE {}

\* A native call on a NULL or freed handle is undefined behaviour. It is
\* recorded; the process may die there (the behaviour ends) or run on.
UseSession(h) == faults' = faults \cup SessionFault(h)

\* History is written only while it is being recorded.
Op(name, arg) == [op |-> name, arg |-> arg, call |-> NoCall]
DidWith(name, arg) == /\ lastOp' = (IF observing THEN Op(name, arg) ELSE lastOp)
                      /\ observing' = observing
DidCall(name, call) ==
    /\ lastOp' = (IF observing THEN [Op(name, Nil) EXCEPT !.call = call] ELSE lastOp)
    /\ observing' = observing
Did(name) == DidWith(name, Nil)
Logged(log, entry) == IF observing THEN Append(log, entry) ELSE log

\* The host drops its reference to an object.
DropRef(o) ==
    /\ o \in Roots
    /\ heap' = [heap EXCEPT ![o].rooted = FALSE]
    /\ Did("drop")
    /\ UNCHANGED <<sessions, faults, returned, fired, decodes>>

\* cluster.cpp cluster_free: frees wrapper->session (and the connect future
\* and the cluster). Freeing a handle twice is recorded as a fault.
cluster_free(wrapper) ==
    IF wrapper.session # 0
    THEN [sessions EXCEPT ![wrapper.session] = "freed"]
    ELSE sessions

\* A faulty variant of session_free: the wrapper frees the native session it
\* points to.
session_free_with_session(wrapper) == {wrapper.session} \ {0}

\* session.cpp session_free: the native sessions the function frees. None:
\* the session belongs to the cluster wrapper, only the struct is freed.
session_free(wrapper) == {}

\* The collector finalizes an unreachable object: its type's free function
\* runs (cluster_free, session_free, prepared_statement_free, statement_free,
\* batch_free, future_free). Unreachable objects go in any order.
Finalize(o) ==
    /\ o \in Ids
    /\ heap[o].live
    /\ o \notin Reachable
    /\ heap' = [heap EXCEPT ![o].live = FALSE]
    /\ LET released == IF heap[o].kind = "Session" THEN session_free(heap[o]) ELSE {}
       IN  /\ sessions' = IF heap[o].kind = "Cluster" THEN cluster_free(heap[o])
                          ELSE [h \in DOMAIN sessions |->
                                   IF h \in released THEN "freed" ELSE sessions[h]]
           /\ faults' = IF \/ /\ heap[o].kind = "Cluster"
                              /\ heap[o].session # 0
                              /\ sessions[heap[o].session] = "freed"
                           \/ \E h \in released : sessions[h] = "freed"
                        THEN faults \cup {"double_free"} ELSE faults
    /\ Did("gc")
    /\ UNCHANGED <<returned, fired, decodes>>

\* ---------------------------------------------------------------- cluster
\* cluster.cpp cluster_connect: a new native session replaces
\* cluster->session and a new connect future cluster->connect_future; on a
\* connection error it raises, else it wraps the session with @cluster set.
ClusterConnect(c, ok) ==
    /\ c \in Callable("Cluster")
    /\ Len(sessions) < MaxSessions
    /\ ok => HasRoom
    /\ LET h == Len(sessions) + 1
           cl == [heap EXCEPT ![c].session = h, ![c].connect_future = h]
       IN  /\ sessions' = Append(sessions, IF ok THEN "open" ELSE "new")
           /\ heap' = IF ok
                      THEN Append(cl, [Obj("Session", c, c) EXCEPT !.session = h])
                      ELSE cl
    /\ Did("connect")
    /\ UNCHANGED <<faults, returned, fired, decodes>>

\* What value returns or raises, and what a continuation is called with.
Value(kind, rows, obj, msg) == [kind |-> kind, rows |-> rows, obj |-> obj, msg |-> msg]

\* A faulty variant of raise_cassandra_error: the driver's message is left out.
raise_cassandra_error_without_message(future, operation) ==
    Value("error", <<>>, 0, "Cassandra " \o operation \o " error: ")

\* common.cpp raise_cassandra_error: "Cassandra %s error: %.*s".
raise_cassandra_error(future, operation) ==
    Value("error", <<>>, 0, "Cassandra " \o operation \o " error: " \o future.msg)

\* A future without error whose cass_future_get_result is NULL.
NullOutcome == [state |-> "ok", result |-> NullResult, msg |-> ""]

\* What a future without error or with one looks like to a blocking call.
BlockingOutcomes ==
    {[state |-> "ok", result |-> r, msg |-> ""] : r \in RowResults}
    \cup {[state |-> "error", result |-> NullResult, msg |-> m] : m \in Messages}

\* ---------------------------------------------------------------- session
\* session.cpp session_execute lines 62-78: raise on an error code, else
\* the rows of the result.
session_execute(future) ==
    IF future.state # "ok" THEN raise_cassandra_error(future, "query execution")
    ELSE Value("rows", convert_result_to_ruby(future.result), 0, "")

\* session.cpp session_execute: blocking; the driver succeeds or fails, and
\* the call returns the rows or raises.
SessionExecute(s, future) ==
    /\ s \in Callable("Session")
    /\ future \in BlockingOutcomes
    /\ observing => Len(returned) < MaxCalls
    /\ UseSession(heap[s].session)
    /\ returned' = Logged(returned, [f |-> s, v |-> session_execute(future)])
    /\ DidCall("session_execute", ExecuteCall(future))
    /\ UNCHANGED <<heap, sessions, fired, decodes>>

\* session.cpp session_close lines 85-90: with a session, one
\* cass_session_close whose future is waited for and freed; without, no
\* native call.
CloseCall(s, session) ==
    [NoCall EXCEPT !.recv = s,
                   !.made = (IF session # 0 THEN <<"future">> ELSE <<>>),
                   !.freed = (IF session # 0 THEN <<"future">> ELSE <<>>)]

\* A faulty variant of SessionClose: wrapper->session is left as it was.
SessionCloseKeepingHandle(s) ==
    /\ s \in Callable("Session")
    /\ IF heap[s].session # 0
       THEN sessions' = [sessions EXCEPT ![heap[s].session] = "closed"]
       ELSE UNCHANGED sessions
    /\ heap' = heap
    /\ DidCall("session_close", CloseCall(s, heap[s].session))
    /\ UNCHANGED <<faults, returned, fired, decodes>>

\* session.cpp session_close: closes once and clears wrapper->session.
SessionClose(s) ==
    /\ s \in Callable("Session")
    /\ IF heap[s].session # 0
       THEN /\ sessions' = [sessions EXCEPT ![heap[s].session] = "closed"]
            /\ heap' = [heap EXCEPT ![s].session = 0]
       ELSE UNCHANGED <<heap, sessions>>
    /\ DidCall("session_close", CloseCall(s, heap[s].session))
    /\ UNCHANGED <<faults, returned, fired, decodes>>

\* session.cpp session_prepare, lines 114-125: the wrapper of a prepared
\* statement, session_ref = self and @session = self.
session_prepare(self) == Obj("Prepared", self, self)

\* session.cpp session_prepare: blocking; raises when the driver fails. The
\* prepare future is freed once the prepared statement is taken from it
\* (lines 104-112); raise_cassandra_error leaves before that.
SessionPrepare(s, ok) ==
    /\ s \in Callable("Session")
    /\ ok => HasRoom
    /\ UseSession(heap[s].session)
    /\ heap' = IF ok THEN Append(heap, session_prepare(s)) ELSE heap
    /\ DidCall("session_prepare",
               [NoCall EXCEPT !.rc = (IF ok THEN CASS_OK_rc ELSE "CASS_ERROR"),
                              !.made = <<"future">>,
                              !.freed = (IF ok THEN <<"future">> ELSE <<>>)])
    /\ UNCHANGED <<sessions, returned, fired, decodes>>

\* session.cpp session_batch, lines 138-151: session_ref = self, @session = self.
session_batch(self) == Obj("Batch", self, self)

SessionBatch(s) ==
    /\ s \in Callable("Session")
    /\ HasRoom
    /\ heap' = Append(heap, session_batch(s))
    /\ Did("session_batch")
    /\ UNCHANGED <<sessions, faults, returned, fired, decodes>>

\* future.cpp future_new: no continuation, the session kept in session_ref.
future_new(cass_future, session_ref, type) ==
    [Obj("Future", session_ref, 0) EXCEPT
        !.future = cass_future, !.type = type,
        !.callback_proc = Nil, !.error_callback_proc = Nil]

\* session.cpp session_execute_async / session_prepare_async.
SessionAsync(s, type) ==
    /\ s \in Callable("Session")
    /\ HasRoomForFuture
    /\ UseSession(heap[s].session)
    /\ heap' = Append(heap, future_new(PendingFuture, s, type))
    /\ Did(IF type = FUTURE_TYPE_PREPARE THEN "session_prepare_async"
                                                  ELSE "session_execute_async")
    /\ UNCHANGED <<sessions, returned, fired, decodes>>

\* ------------------------------------------------------ prepared statement
\* A faulty variant of prepared_statement_bind: rb_iv_set is left out.
prepared_statement_bind_without_ivar(self) ==
    [Obj("Statement", self, 0) EXCEPT !.params = [i \in 1..Len(Markers) |-> Unset]]

\* prepared_statement.cpp prepared_statement_bind: prepared_ref = self and
\* @prepared_statement = self.
prepared_statement_bind(self) ==
    [Obj("Statement", self, self) EXCEPT !.params = [i \in 1..Len(Markers) |-> Unset]]

PreparedStatementBind(p) ==
    /\ p \in Callable("Prepared")
    /\ HasRoomForFuture
    /\ heap' = Append(heap, prepared_statement_bind(p))
    /\ Did("prepared_bind")
    /\ UNCHANGED <<sessions, faults, returned, fired, decodes>>

\* A faulty variant of StatementBindByIndex: the error code is not looked at.
StatementBindByIndexIgnoringRc(st, index, value) ==
    /\ st \in Callable("Statement")
    /\ LET r == bind_ruby_value_to_statement(heap[st].params, index, value)
       IN  /\ heap' = [heap EXCEPT ![st].params = r.params]
           /\ DidCall("bind", [BindCall(index, value, r.rc) EXCEPT !.raised = NoError])
    /\ UNCHANGED <<sessions, faults, returned, fired, decodes>>

\* statement.cpp statement_bind_by_index: statement.bind(index, value). The
\* step keeps the call, the error code and what was raised.
StatementBindByIndex(st, index, value) ==
    /\ st \in Callable("Statement")
    /\ LET r == bind_ruby_value_to_statement(heap[st].params, index, value)
       IN  /\ heap' = [heap EXCEPT ![st].params = r.params]
           /\ DidCall("bind", [BindCall(index, value, r.rc) EXCEPT
                                 !.self = IF r.rc = CASS_OK_rc THEN st ELSE 0])
    /\ UNCHANGED <<sessions, faults, returned, fired, decodes>>

\* -------------------------------------------------------------- statement
\* statement.cpp statement_execute / statement_execute_async, lines 304-309
\* and 360-365: the session is @session of @prepared_statement.
StatementSession(st) == IvGet(IvGet(st))

\* statement.cpp statement_execute lines 311-355: raise on an error code,
\* else the rows of the result.
statement_execute(future) ==
    IF future.state # "ok"
    THEN raise_cassandra_error(future, "prepared statement execution")
    ELSE Value("rows", StatementRows(future.result), 0, "")

\* statement.cpp statement_execute: blocking. TypedData_Get_Struct raises a
\* TypeError on nil before any native call. The result goes to
\* cass_iterator_from_result unchecked (lines 322-324): with a NULL result
\* that call is undefined, the process dies there or the iterator yields no
\* row.
StatementExecute(st, future) ==
    /\ st \in Callable("Statement")
    /\ future \in BlockingOutcomes \cup {NullOutcome}
    /\ observing => Len(returned) < MaxCalls
    /\ IF StatementSession(st) = 0
       THEN /\ UNCHANGED faults
            /\ returned' = Logged(returned,
                    [f |-> st, v |-> Value("error", <<>>, 0, "TypeError")])
            /\ Did("statement_execute")
       ELSE LET noResult == future.state = "ok" /\ future.result.null
            IN  /\ faults' = faults \cup SessionFault(heap[StatementSession(st)].session)
                                   \cup (IF noResult THEN {"null_result"} ELSE {})
                /\ \E v \in (IF noResult
                              THEN {Value("rows", <<>>, 0, ""),
                                    Value("crash", <<>>, 0, "SIGSEGV")}
                              ELSE {statement_execute(future)}) :
                      returned' = Logged(returned, [f |-> st, v |-> v])
            /\ DidCall("statement_execute", ExecuteCall(future))
    /\ UNCHANGED <<heap, sessions, fired, decodes>>

\* statement.cpp statement_execute_async.
StatementExecuteAsync(st) ==
    /\ st \in Callable("Statement")
    /\ HasRoomForFuture
    /\ IF StatementSession(st) = 0
       THEN UNCHANGED <<faults, heap>>
       ELSE /\ UseSession(heap[StatementSession(st)].session)
            /\ heap' = Append(heap, future_new(PendingFuture, StatementSession(st),
                                               FUTURE_TYPE_EXECUTE))
    /\ Did("statement_execute_async")
    /\ UNCHANGED <<sessions, returned, fired, decodes>>

\* ------------------------------------------------------------------ batch
\* batch.cpp batch_add_statement lines 28-55, the query branch: a statement
\* with one slot for each parameter; each parameter bound in turn, the
\* statement freed and the index reported when the conversion returns an
\* error code; then the statement added and freed. An exception raised inside
\* the conversion (NUM2INT, NUM2LL, StringValueCStr) leaves the function at
\* once. Yields the stage that failed, the index, the code, the entries of
\* the batch afterwards and the handles freed.
batch_add_statement(entries, params, add_rc) ==
    LET RECURSIVE Loop(_, _)
        Loop(i, slots) ==
            IF i >= Len(params)
            THEN [stage |-> IF add_rc = CASS_OK_rc THEN Nil ELSE "add",
                  index |-> 0, rc |-> add_rc,
                  slots |-> IF add_rc = CASS_OK_rc THEN Append(entries, slots)
                            ELSE entries,
                  freed |-> <<"statement">>]
            ELSE LET r == bind_ruby_value_to_statement(slots, i, params[i + 1])
                 IN  IF r.rc = CASS_OK_rc THEN Loop(i + 1, r.params)
                     ELSE [stage |-> "bind", index |-> i, rc |-> r.rc, slots |-> entries,
                           freed |-> IF r.rc \in {"RangeError", "ArgumentError"}
                                     THEN <<>> ELSE <<"statement">>]
    IN  Loop(0, [i \in 1..Len(params) |-> Unset])

\* What add_statement raises: the exception of the conversion, "Failed to
\* bind parameter at index %zu: %s", or "Failed to add statement to batch: %s".
AddError(done) ==
    IF done.stage = "bind" THEN BindError(done.index, done.rc)
    ELSE IF done.stage = "add"
    THEN [class |-> "CassandraCpp::Error",
          message |-> <<"Failed to add statement to batch: ", cass_error_desc(done.rc)>>]
    ELSE NoError

\* batch.add_statement(query, params) and batch.add_statement(statement, nil):
\* st = 0 is a query string, else the NativeStatement whose native statement
\* is added as it is.
BatchAddStatement(b, st, params, add_rc) ==
    /\ b \in Callable("Batch")
    /\ Len(heap[b].entries) < MaxCalls
    /\ IF st = 0
       THEN /\ LET done == batch_add_statement(heap[b].entries, params, add_rc)
              IN  /\ heap' = [heap EXCEPT ![b].entries = done.slots]
                   /\ lastOp' = [Op("batch_add_statement", done.stage) EXCEPT
                                    !.call.index = done.index,
                                    !.call.rc = done.rc,
                                    !.call.raised = AddError(done),
                                    !.call.made = <<"statement">>,
                                    !.call.freed = done.freed]
       ELSE /\ st \in Callable("Statement")
            /\ params = <<>>
            /\ heap' = [heap EXCEPT ![b].entries =
                            IF add_rc = CASS_OK_rc THEN Append(@, heap[st].params) ELSE @]
            /\ lastOp' = [Op("batch_add_statement",
                              IF add_rc = CASS_OK_rc THEN Nil ELSE "add") EXCEPT
                             !.call.rc = add_rc,
                             !.call.raised =
                                 AddError([stage |-> IF add_rc = CASS_OK_rc THEN Nil ELSE "add",
                                           index |-> 0, rc |-> add_rc])]
    /\ UNCHANGED <<sessions, faults, observing, returned, fired, decodes>>

\* batch.cpp batch_set_consistency.
BatchSetConsistency(b, level) ==
    /\ b \in Callable("Batch")
    /\ heap' = [heap EXCEPT ![b].consistency = level]
    /\ Did("batch_consistency")
    /\ UNCHANGED <<sessions, faults, returned, fired, decodes>>

\* batch.cpp batch_execute: the session is @session of the batch. The
\* result is checked against NULL before it is read.
BatchExecute(b, future) ==
    /\ b \in Callable("Batch")
    /\ future \in BlockingOutcomes \cup {NullOutcome}
    /\ IF IvGet(b) = 0
       THEN /\ UNCHANGED faults
            /\ Did("batch_execute")
       ELSE /\ UseSession(heap[IvGet(b)].session)
            /\ DidCall("batch_execute", ExecuteCall(future))
    /\ UNCHANGED <<heap, sessions, returned, fired, decodes>>


\* ----------------------------------------------------------------- future
\* The driver completes an outstanding operation: success with a result (a
\* prepare yields a prepared handle, not rows) or failure with a message.
Outcomes(type) ==
    {[state |-> "ok", result |-> r, msg |-> ""] :
        r \in (IF type = FUTURE_TYPE_PREPARE THEN {NullResult}
               ELSE {NullResult, TwoRowResult})}
    \cup {[state |-> "error", result |-> NullResult, msg |-> m] : m \in Messages}

DriverComplete(f, outcome) ==
    /\ f \in OfKind("Future")
    /\ heap[f].live
    /\ heap[f].future.state = "pending"
    /\ outcome \in Outcomes(heap[f].type)
    /\ heap' = [heap EXCEPT ![f].future = outcome]
    /\ Did("driver")
    /\ UNCHANGED <<sessions, faults, returned, fired, decodes>>

cass_future_ready(future) == future.state # "pending"
CASS_OK(future) == future.state = "ok"

\* A faulty variant of future_then: a continuation already registered is kept.
future_then_keeps_first(wrapper, block) ==
    IF wrapper.callback_proc = Nil THEN [wrapper EXCEPT !.callback_proc = block]
    ELSE wrapper

\* future.cpp future_then: wrapper->callback_proc = rb_block_proc().
future_then(wrapper, block) == [wrapper EXCEPT !.callback_proc = block]

\* future.cpp future_rescue: wrapper->error_callback_proc = rb_block_proc().
future_rescue(wrapper, block) == [wrapper EXCEPT !.error_callback_proc = block]

\* A faulty variant of FutureThen: a continuation registered on an operation that has
\* already succeeded is invoked at once.
FutureThenFiresWhenReady(f, block) ==
    /\ f \in Callable("Future")
    /\ block \in Blocks \cup {Nil}
    /\ heap' = IF block = Nil THEN heap
               ELSE [heap EXCEPT ![f].callback_proc = block]
    /\ fired' = IF block # Nil /\ heap[f].future.state = "ok" /\ Len(fired) < MaxCalls
                THEN Logged(fired, [f |-> f, slot |-> "callback_proc", proc |-> block,
                                    arg |-> [kind |-> "rows", rows |-> <<>>,
                                             obj |-> 0, msg |-> ""]])
                ELSE fired
    /\ DidWith("then", block)
    /\ UNCHANGED <<sessions, faults, returned, decodes>>

\* future.then(&block): with a block, or without one (block = Nil), which
\* raises ArgumentError before the wrapper is touched.
FutureThen(f, block) ==
    /\ f \in Callable("Future")
    /\ block \in Blocks \cup {Nil}
    /\ heap' = IF block = Nil THEN heap ELSE [heap EXCEPT ![f] = future_then(@, block)]
    /\ DidWith("then", block)
    /\ UNCHANGED <<sessions, faults, returned, fired, decodes>>

\* future.rescue(&block).
FutureRescue(f, block) ==
    /\ f \in Callable("Future")
    /\ block \in Blocks \cup {Nil}
    /\ heap' = IF block = Nil THEN heap ELSE [heap EXCEPT ![f] = future_rescue(@, block)]
    /\ DidWith("rescue", block)
    /\ UNCHANGED <<sessions, faults, returned, fired, decodes>>

\* future.cpp future_ready_p.
future_ready_p(wrapper) == cass_future_ready(wrapper.future)

\* future.ready?: what it answers is kept as the argument of the step.
FutureReady(f) ==
    /\ f \in Callable("Future")
    /\ DidWith("ready?", IF future_ready_p(heap[f]) THEN "true" ELSE "false")
    /\ UNCHANGED <<heap, sessions, faults, returned, fired, decodes>>

\* future.cpp future_value lines 99-149 and future_execute_callbacks lines
\* 175-217: the success value. A prepare wraps cass_future_get_prepared in a
\* new NativePreparedStatement (object id fresh); an execute decodes the rows.
DecodeOutcome(wrapper, fresh) ==
    IF wrapper.type = FUTURE_TYPE_PREPARE
    THEN Value("prepared", <<>>, fresh, "")
    ELSE Value("rows", DecodeRows(wrapper.future.result), 0, "")

\* The NativePreparedStatement made from a prepare future: session_ref and
\* @session are the future's session_ref.
PreparedFromFuture(wrapper) == Obj("Prepared", wrapper.ref, wrapper.ref)

\* future.cpp future_value: what the call yields. timed: a timeout was given
\* and it elapses before the call would otherwise return.
future_value(wrapper, timed, fresh) ==
    IF ~cass_future_ready(wrapper.future)
    THEN Value("timeout", <<>>, 0, "Future timed out")
    ELSE IF ~CASS_OK(wrapper.future)
    THEN raise_cassandra_error(wrapper.future, "future execution")
    ELSE DecodeOutcome(wrapper, fresh)

\* The heap after value: a successful prepare adds the wrapper it returns.
ValueHeap(f, v) ==
    IF v.kind = "prepared" THEN Append(heap, PreparedFromFuture(heap[f])) ELSE heap

\* A faulty variant of FutureValue: the native future is released once value has read
\* it, as the blocking paths do with theirs (cass_future_free).
FutureValueReleases(f, timed) ==
    /\ f \in Callable("Future")
    /\ Len(returned) < MaxCalls
    /\ ~cass_future_ready(heap[f].future) => timed
    /\ LET v == future_value(heap[f], timed, Len(heap) + 1)
       IN  /\ v.kind = "prepared" => HasRoom
           /\ returned' = Logged(returned, [f |-> f, v |-> v])
           /\ heap' = IF v.kind = "timeout" THEN heap
                      ELSE [ValueHeap(f, v) EXCEPT ![f].future = NoFuture]
           /\ decodes' = IF v.kind \in {"prepared", "rows"}
                         THEN Logged(decodes, f) ELSE decodes
    /\ Did("value")
    /\ UNCHANGED <<sessions, faults, fired>>

\* A faulty variant of FutureValue: a timed-out wait gives the operation up, which
\* from then on reports a failure.
FutureValueCancelsOnTimeout(f, timed) ==
    /\ f \in Callable("Future")
    /\ Len(returned) < MaxCalls
    /\ ~cass_future_ready(heap[f].future) => timed
    /\ LET v == future_value(heap[f], timed, Len(heap) + 1)
       IN  /\ v.kind = "prepared" => HasRoom
           /\ returned' = Logged(returned, [f |-> f, v |-> v])
           /\ heap' = IF v.kind = "timeout"
                      THEN [heap EXCEPT ![f].future =
                               [state |-> "error", result |-> NullResult,
                                msg |-> "cancelled"]]
                      ELSE ValueHeap(f, v)
           /\ decodes' = IF v.kind \in {"prepared", "rows"}
                         THEN Logged(decodes, f) ELSE decodes
    /\ Did("value")
    /\ UNCHANGED <<sessions, faults, fired>>

\* future.value(timeout = nil). Without a timeout the call blocks while the
\* operation is pending, so it returns only once the driver completed it.
\* Nothing of the wrapper is written: no result is kept for a later call.
FutureValue(f, timed) ==
    /\ f \in Callable("Future")
    /\ Len(returned) < MaxCalls
    /\ ~cass_future_ready(heap[f].future) => timed
    /\ LET v == future_value(heap[f], timed, Len(heap) + 1)
       IN  /\ v.kind = "prepared" => HasRoom
           /\ returned' = Logged(returned, [f |-> f, v |-> v])
           /\ heap' = ValueHeap(f, v)
           /\ decodes' = IF v.kind \in {"prepared", "rows"}
                         THEN Logged(decodes, f) ELSE decodes
    /\ Did("value")
    /\ UNCHANGED <<sessions, faults, fired>>

\* A faulty variant of future_execute_callbacks: the success continuation is taken
\* whenever one is registered, whatever the error code.
future_execute_callbacks_ignoring_rc(wrapper) ==
    IF cass_future_ready(wrapper.future)
    THEN IF wrapper.callback_proc # Nil THEN "callback_proc"
         ELSE IF wrapper.error_callback_proc # Nil THEN "error_callback_proc"
         ELSE Nil
    ELSE Nil

\* future.cpp future_execute_callbacks: which continuation the call invokes,
\* as the struct field it is read from, or Nil for none.
future_execute_callbacks(wrapper) ==
    IF cass_future_ready(wrapper.future)
    THEN IF CASS_OK(wrapper.future) /\ wrapper.callback_proc # Nil
         THEN "callback_proc"
         ELSE IF ~CASS_OK(wrapper.future) /\ wrapper.error_callback_proc # Nil
         THEN "error_callback_proc"
         ELSE Nil
    ELSE Nil

\* future.execute_callbacks: the success continuation is called with the
\* freshly decoded value, the failure continuation with the driver's message.
FutureExecuteCallbacks(f) ==
    /\ f \in Callable("Future")
    /\ LET w == heap[f]
           slot == future_execute_callbacks(w)
           v == DecodeOutcome(w, Len(heap) + 1)
       IN  IF slot = "callback_proc"
           THEN /\ Len(fired) < MaxCalls
                /\ v.kind = "prepared" => HasRoom
                /\ heap' = IF v.kind = "prepared"
                           THEN Append(heap, PreparedFromFuture(w)) ELSE heap
                /\ decodes' = Logged(decodes, f)
                /\ fired' = Logged(fired, [f |-> f, slot |-> slot,
                                           proc |-> w.callback_proc, arg |-> v])
           ELSE IF slot = "error_callback_proc"
           THEN /\ Len(fired) < MaxCalls
                /\ fired' = Logged(fired, [f |-> f, slot |-> slot,
                                           proc |-> w.error_callback_proc,
                                           arg |-> Value("message", <<>>, 0, w.future.msg)])
                /\ UNCHANGED <<heap, decodes>>
           ELSE UNCHANGED <<heap, decodes, fired>>
    /\ Did("execute_callbacks")
    /\ UNCHANGED <<sessions, faults, returned>>

\* ---------------------------------------------------------- specification
\* After NativeCluster.new: one cluster wrapper, no session yet.
Init ==
    /\ heap = <<Obj("Cluster", 0, 0)>>
    /\ sessions = <<>>
    /\ faults = {}
    /\ observing = FALSE
    /\ lastOp = Op("cluster_new", Nil)
    /\ returned = <<>>
    /\ fired = <<>>
    /\ decodes = <<>>

FutureTypes == {FUTURE_TYPE_EXECUTE, FUTURE_TYPE_PREPARE}
AllIds == 1..(MaxObjects + 1)

\* The object graph under the collector: every way the host makes, uses and
\* drops the wrappers of one connection, with the collector finalizing
\* unreachable ones at any point and in any order. A prepare completes so
\* that value can wrap its prepared statement; what else a completed
\* operation holds is the subject of SpecFuture.
Next ==
    \/ \E c \in AllIds, ok \in BOOLEAN : sessions = <<>> /\ ClusterConnect(c, ok)
    \/ \E s \in AllIds, o \in BlockingOutcomes : SessionExecute(s, o)
    \/ \E s \in AllIds, ok \in BOOLEAN : SessionPrepare(s, ok)
    \/ \E s \in AllIds : SessionBatch(s)
    \/ \E s \in AllIds, t \in FutureTypes : SessionAsync(s, t)
    \/ \E p \in AllIds : HasRoom /\ PreparedStatementBind(p)
    \/ \E st \in AllIds, o \in BlockingOutcomes : StatementExecute(st, o)
    \/ \E st \in AllIds : StatementExecuteAsync(st)
    \/ \E b \in AllIds, o \in BlockingOutcomes : BatchExecute(b, o)
    \/ \E f \in OfKind("Future") :
          heap[f].type = FUTURE_TYPE_PREPARE /\ DriverComplete(f, NullOutcome)
    \/ \E f \in AllIds : FutureValue(f, FALSE)
    \/ \E o \in AllIds : DropRef(o)
    \/ \E o \in AllIds : Finalize(o)

Spec == Init /\ [][Next]_vars

\* Closing sessions: every operation that passes a session handle to the
\* driver, on sessions the host may have closed.
NextClose ==
    \/ \E c \in AllIds, ok \in BOOLEAN : ClusterConnect(c, ok)
    \/ \E s \in AllIds : SessionClose(s)
    \/ \E s \in AllIds, o \in BlockingOutcomes : SessionExecute(s, o)
    \/ \E s \in AllIds, ok \in BOOLEAN : SessionPrepare(s, ok)
    \/ \E s \in AllIds : SessionBatch(s)
    \/ \E s \in AllIds, t \in FutureTypes : SessionAsync(s, t)
    \/ \E p \in AllIds : HasRoom /\ PreparedStatementBind(p)
    \/ \E st \in AllIds, o \in BlockingOutcomes : StatementExecute(st, o)
    \/ \E st \in AllIds : StatementExecuteAsync(st)
    \/ \E b \in AllIds, o \in BlockingOutcomes : BatchExecute(b, o)

SpecClose == Init /\ [][NextClose]_vars

\* The asynchronous bridge: one operation followed from its submission on a
\* connected session, with everything the host and the driver can do to it.
NextFuture ==
    \/ \E c \in AllIds : sessions = <<>> /\ ClusterConnect(c, TRUE)
    \/ \E s \in AllIds, t \in FutureTypes : OfKind("Future") = {} /\ SessionAsync(s, t)
    \/ \E f \in AllIds,
          o \in Outcomes(FUTURE_TYPE_EXECUTE) \cup Outcomes(FUTURE_TYPE_PREPARE) :
          DriverComplete(f, o)
    \/ \E f \in AllIds, b \in Blocks \cup {Nil} : FutureThen(f, b)
    \/ \E f \in AllIds, b \in Blocks \cup {Nil} : FutureRescue(f, b)
    \/ \E f \in AllIds : FutureReady(f)
    \/ \E f \in AllIds, timed \in BOOLEAN : FutureValue(f, timed)
    \/ \E f \in AllIds : FutureExecuteCallbacks(f)

\* The same start, with the host-side history recorded.
InitFuture ==
    /\ heap = <<Obj("Cluster", 0, 0)>>
    /\ sessions = <<>>
    /\ faults = {}
    /\ observing = TRUE
    /\ lastOp = Op("cluster_new", Nil)
    /\ returned = <<>>
    /\ fired = <<>>
    /\ decodes = <<>>

SpecFuture == InitFuture /\ [][NextFuture]_vars

\* ---------------------------------------------------- the values bound
Shaped(ch) == [i \in 1..36 |-> IF i \in {9, 14, 19, 24} THEN "-" ELSE ch]
One == HostInteger(Small(1))
TextA == HostString(<<"a">>, "UTF-8")
Nested == HostCollection("Array", <<One, TextA>>)
SeqsUpTo(S, n) == UNION {[1..k -> S] : k \in 0..n}
Injective(q) == \A i, j \in 1..Len(q) : q[i] = q[j] => i = j

\* Strings: empty, plain, with a null byte, with bytes above 127, a uuid in
\* lower and in upper case, uuid-shaped but no uuid, uuid-shaped with a null
\* byte, and 36 characters without dashes; each tagged UTF-8 and ASCII-8BIT.
\* Integers at and around the ends of the int, Fixnum and long long ranges.
\* What a collection holds: nil, an int, an integer beyond int, a text, a
\* text with a null byte, a list. Hashes: distinct keys with their values,
\* keys and values in turn.
BindValues ==
    LET Payloads ==
            { <<>>, <<"a", "b">>, <<"a", NUL, "b">>, <<"\\xC3", "\\xA9">>,
              Shaped("a"), Shaped("A"), Shaped("g"), [Shaped("a") EXCEPT ![1] = NUL],
              [i \in 1..36 |-> "a"] }
        Strings == {HostString(str, enc) : str \in Payloads, enc \in {"UTF-8", "ASCII-8BIT"}}
        Nums ==
            { Num(0, 0, 0), Num(0, 0, 1), Num(-1, INT32_MAX, INT32_MAX),
              Num(0, 0, INT32_MAX), Num(0, 1, 0),
              Num(-1, INT32_MAX, 0), Num(-1, INT32_MAX - 1, INT32_MAX),
              Num(0, INT32_MAX, INT32_MAX), Num(1, 0, 0),
              Num(-1, 0, 0), Num(-2, INT32_MAX, INT32_MAX),
              Num(1, INT32_MAX, INT32_MAX), Num(-2, 0, 0),
              Num(2, 0, 0), Num(-3, INT32_MAX, INT32_MAX) }
        Scalars ==
            Strings \cup {HostInteger(n) : n \in Nums}
            \cup { Qnil, Qtrue, Qfalse, HostFloat(<<"1", ".", "5">>),
                   HostValue("Time", Small(1000), <<>>),
                   HostValue("Symbol", Small(0), <<"o", "k">>) }
        Two == HostInteger(Small(2))
        Elements == {Qnil, One, HostInteger(Num(0, 1, 0)), TextA,
                     HostString(<<"a", NUL>>, "UTF-8"), Nested}
        Lists == {HostCollection("Array", q) : q \in SeqsUpTo(Elements, MaxLen)}
        Sets == {HostCollection("Set", q) :
                    q \in {r \in SeqsUpTo({One, TextA, Nested}, MaxLen) : Injective(r)}}
        Interleave(ks, vs) ==
            [i \in 1..(2 * Len(ks)) |->
                IF i % 2 = 1 THEN ks[(i + 1) \div 2] ELSE vs[i \div 2]]
        Maps ==
            {HostCollection("Hash", Interleave(kv[1], kv[2])) :
                kv \in {c \in SeqsUpTo({Qnil, One, TextA}, MaxLen)
                              \X SeqsUpTo({Qnil, Two, Nested}, MaxLen) :
                           Injective(c[1]) /\ Len(c[1]) = Len(c[2])}}
    IN  Scalars \cup Lists \cup Sets \cup Maps

\* Binding into the slots of one statement, at indexes in and out of range,
\* a few values of each outcome: bound, refused by the driver, raising.
NextBind ==
    \/ \E c \in AllIds : sessions = <<>> /\ ClusterConnect(c, TRUE)
    \/ \E s \in AllIds : OfKind("Prepared") = {} /\ SessionPrepare(s, TRUE)
    \/ \E p \in AllIds :
          HasRoom /\ OfKind("Statement") = {} /\ PreparedStatementBind(p)
    \/ \E st \in AllIds, index \in 0..(Len(Markers) + 1),
          value \in { Qnil, One, TextA, HostCollection("Array", <<One>>),
                      HostCollection("Array", <<HostInteger(Num(0, 1, 0))>>),
                      HostCollection("Hash", <<One, Qnil>>) } :
          StatementBindByIndex(st, index, value)

SpecBind == InitFuture /\ [][NextBind]_vars

\* The conversion of one value: any value bound to the first parameter of
\* a statement just made.
NextCodec ==
    \/ \E c \in AllIds : sessions = <<>> /\ ClusterConnect(c, TRUE)
    \/ \E s \in AllIds : OfKind("Prepared") = {} /\ SessionPrepare(s, TRUE)
    \/ \E p \in AllIds :
          HasRoom /\ OfKind("Statement") = {} /\ PreparedStatementBind(p)
    \/ \E st \in AllIds :
          /\ st \in OfKind("Statement")
          /\ \A i \in 1..Len(heap[st].params) : heap[st].params[i] = Unset
          /\ lastOp.op = "prepared_bind"
          /\ \E value \in BindValues : StatementBindByIndex(st, 0, value)

SpecCodec == InitFuture /\ [][NextCodec]_vars

\* Rows: blocking executes on a session and on a statement, then one
\* asynchronous execute read by value and handed to a continuation.
NextRows ==
    \/ \E c \in AllIds : sessions = <<>> /\ ClusterConnect(c, TRUE)
    \/ \E s \in AllIds, o \in BlockingOutcomes :
          OfKind("Future") = {} /\ SessionExecute(s, o)
    \/ \E s \in AllIds : OfKind("Prepared") = {} /\ SessionPrepare(s, TRUE)
    \/ \E p \in AllIds :
          HasRoom /\ OfKind("Statement") = {} /\ PreparedStatementBind(p)
    \/ \E st \in AllIds, o \in BlockingOutcomes :
          OfKind("Future") = {} /\ StatementExecute(st, o)
    \/ \E s \in AllIds :
          OfKind("Future") = {} /\ SessionAsync(s, FUTURE_TYPE_EXECUTE)
    \/ \E st \in AllIds : OfKind("Future") = {} /\ StatementExecuteAsync(st)
    \/ \E f \in AllIds, o \in Outcomes(FUTURE_TYPE_EXECUTE) : DriverComplete(f, o)
    \/ \E f \in OfKind("Future"), b \in Blocks :
          heap[f].callback_proc = Nil /\ FutureThen(f, b)
    \/ \E f \in AllIds : FutureValue(f, FALSE)
    \/ \E f \in AllIds : FutureExecuteCallbacks(f)

SpecRows == InitFuture /\ [][NextRows]_vars

\* ------------------------------------------ statements of one template
\* Two statements made from one prepared statement, each bound on its own
\* with a number, a text, or a map the driver refuses.
NextTemplate ==
    \/ \E c \in AllIds : sessions = <<>> /\ ClusterConnect(c, TRUE)
    \/ \E s \in AllIds : OfKind("Prepared") = {} /\ SessionPrepare(s, TRUE)
    \/ \E p \in AllIds :
          Cardinality(OfKind("Statement")) < 2 /\ PreparedStatementBind(p)
    \/ \E st \in AllIds, index \in 0..Len(Markers),
          value \in {One, TextA, HostCollection("Hash", <<One, Qnil>>)} :
          StatementBindByIndex(st, index, value)

SpecTemplate == InitFuture /\ [][NextTemplate]_vars

\* ----------------------------------------------------- the connections
\* A cluster connected more than once: sessions made, used, closed and
\* dropped, with the collector finalizing what the host cannot reach.
NextConnect ==
    \/ \E c \in AllIds, ok \in BOOLEAN : ClusterConnect(c, ok)
    \/ \E s \in AllIds : SessionClose(s)
    \/ \E s \in AllIds, o \in BlockingOutcomes :
          returned = <<>> /\ o.result = EmptyResult /\ SessionExecute(s, o)
    \/ \E o \in AllIds : DropRef(o)
    \/ \E o \in AllIds : Finalize(o)

SpecConnect == InitFuture /\ [][NextConnect]_vars

\* ------------------------------------------------- the native handles
\* Every blocking operation and its asynchronous counterpart on one
\* connection: what each call creates in the driver, what it releases, and
\* what it hands back. The ad-hoc entries a host adds to a batch have one or
\* two parameters, each bound, refused by the driver (a map with a value
\* missing) or raising while it is converted (a list element beyond 32 bits).
NextNative ==
    \/ \E c \in AllIds : sessions = <<>> /\ ClusterConnect(c, TRUE)
    \/ \E s \in AllIds, o \in BlockingOutcomes :
          returned = <<>> /\ Len(heap) = 2 /\ SessionExecute(s, o)
    \/ \E s \in AllIds, ok \in BOOLEAN :
          OfKind("Prepared") = {} /\ SessionPrepare(s, ok)
    \/ \E s \in AllIds : returned = <<>> /\ OfKind("Batch") = {} /\ SessionBatch(s)
    \/ \E b \in AllIds, st \in {0} \cup AllIds,
          params \in SeqsUpTo({One, HostCollection("Hash", <<One, Qnil>>),
                               HostCollection("Array", <<HostInteger(Num(0, 1, 0))>>)}, 2),
          add_rc \in {CASS_OK_rc, "CASS_ERROR_LIB_BAD_PARAMS"} :
          (st = 0 => params # <<>>) /\ BatchAddStatement(b, st, params, add_rc)
    \/ \E b \in OfKind("Batch"), level \in {1, 6} :
          /\ heap[b].consistency = 0
          /\ heap[b].entries = <<>>
          /\ BatchSetConsistency(b, level)
    \/ \E b \in AllIds, o \in BlockingOutcomes \cup {NullOutcome} : BatchExecute(b, o)
    \/ \E p \in AllIds :
          HasRoom /\ OfKind("Statement") = {} /\ PreparedStatementBind(p)
    \/ \E st \in AllIds, o \in BlockingOutcomes \cup {NullOutcome} :
          OfKind("Batch") = {} /\ StatementExecute(st, o)
    \/ \E st \in AllIds :
          OfKind("Batch") \cup OfKind("Future") = {} /\ StatementExecuteAsync(st)
    \/ \E f \in AllIds, o \in Outcomes(FUTURE_TYPE_EXECUTE) : DriverComplete(f, o)
    \/ \E f \in AllIds : FutureValue(f, FALSE)

SpecNative == InitFuture /\ [][NextNative]_vars


\* ------------------------------------------------------ the columns read
\* The value types the switch of convert_cass_value_to_ruby names, and
\* some of those it leaves to its default branch.
SupportedTypes ==
    {"TEXT", "VARCHAR", "INT", "BIGINT", "BOOLEAN", "UUID", "FLOAT", "DOUBLE",
     "TIMESTAMP", "DECIMAL", "BLOB", "LIST", "SET", "MAP", "TUPLE"}
UnsupportedTypes == {"ASCII", "INET", "DATE", "VARINT", "TIMEUUID", "SMALLINT"}
\* Columns of every type, null and not, with a few payloads.
WireValues ==
    {[WireValue(t, isnull, i, s) EXCEPT !.items = items] :
        t \in SupportedTypes \cup UnsupportedTypes, isnull \in BOOLEAN,
        i \in {Small(0), Small(1)},
        s \in {<<>>, <<"a">>,
               <<"[", "u", "n", "s", "u", "p", "p", "o", "r", "t", "e", "d", " ",
                 "t", "y", "p", "e", "]">>},
        items \in {<<>>, <<WireText(<<"a">>), WireInt(Small(1))>>}}
\* A column of a row is there to be read: a result of one row with the one
\* column.
InitDecode ==
    /\ heap = <<Obj("Cluster", 0, 0)>>
    /\ sessions = <<>>
    /\ faults = {}
    /\ observing = TRUE
    /\ \E value \in WireValues :
          lastOp = [Op("column", Nil) EXCEPT !.call.result =
                       [null |-> FALSE, cols |-> <<"c">>, rows |-> << <<value>> >>]]
    /\ returned = <<>>
    /\ fired = <<>>
    /\ decodes = <<>>

\* The column is converted: the step keeps what the host is given.
ConvertColumn ==
    /\ lastOp.op = "column"
    /\ lastOp' = [lastOp EXCEPT
                     !.op = "convert",
                     !.call.value =
                         convert_cass_value_to_ruby(lastOp.call.result.rows[1][1])]
    /\ UNCHANGED <<heap, sessions, faults, observing, returned, fired, decodes>>

SpecDecode == InitDecode /\ [][ConvertColumn]_vars

\* ================================================================ properties
\* The one asynchronous operation SpecFuture follows.
Futures == OfKind("Future")

\* v is the success value of the operation w wraps: the decoded rows of an
\* execute, a prepared statement of w's session for a prepare.
IsSuccessOf(w, v) ==
    IF w.type = FUTURE_TYPE_PREPARE
    THEN /\ v.kind = "prepared"
         /\ v.obj \in Ids
         /\ heap[v.obj].kind = "Prepared"
         /\ heap[v.obj].ref = w.ref
    ELSE v = Value("rows", DecodeRows(w.future.result), 0, "")

\* The session wrapper an object was made from.
SessionOf(o) ==
    IF heap[o].kind = "Statement" THEN heap[heap[o].ref].ref ELSE heap[o].ref

\* A native session handle that may be handed to the driver.
Usable(h) == h # 0 /\ sessions[h] # "freed"

\* ---- C1
\* C1: for an operation that succeeded, every value() call returns the
\* identical decoded result and the decoder runs once over the operation's
\* life: later calls return the cached result without decoding again.
C1_DecodedOnce ==
    \A f \in Futures :
        /\ Cardinality({i \in DOMAIN decodes : decodes[i] = f}) <= 1
        /\ \A i, j \in DOMAIN returned :
              (/\ returned[i].f = f
               /\ returned[j].f = f
               /\ returned[i].v.kind \in {"rows", "prepared"}
               /\ returned[j].v.kind \in {"rows", "prepared"})
              => returned[i].v = returned[j].v

\* ---- C2
\* C2: over any sequence of executeCallbacks() calls on a ready operation
\* with a matching continuation, the continuation is invoked once: later
\* calls for the same outcome invoke nothing.
C2_FiredOnce ==
    \A f \in Futures : Cardinality({i \in DOMAIN fired : fired[i].f = f}) <= 1

\* ---- C3
\* C3: an operation becomes ready at most once and never goes back: once it
\* is ready no step changes its outcome, so ready? stays true and every
\* value() and executeCallbacks() observes the outcome kind the operation has.
C3_OutcomeIrreversible ==
    /\ [](/\ \A i \in DOMAIN returned :
               LET w == heap[returned[i].f] IN
               /\ returned[i].v.kind = "error" => w.future.state = "error"
               /\ returned[i].v.kind \in {"rows", "prepared"} => w.future.state = "ok"
          /\ \A i \in DOMAIN fired :
               LET w == heap[fired[i].f] IN
               /\ fired[i].slot = "callback_proc" => w.future.state = "ok"
               /\ fired[i].slot = "error_callback_proc" => w.future.state = "error"
          /\ lastOp = Op("ready?", "true")
               => \E f \in Futures : cass_future_ready(heap[f].future))
    /\ [][\A f \in Futures :
             cass_future_ready(heap[f].future) => heap'[f].future = heap[f].future]_vars

\* C3 witness: a failed operation seen by value() twice and by
\* executeCallbacks().
C3_Witness ==
    /\ Len(returned) = 2
    /\ returned[1].v.kind = "error"
    /\ returned[2].v.kind = "error"
    /\ fired # <<>>

\* ---- C4
\* C4: whatever the host drops and whatever the collector finalizes, a
\* statement the host can still reach has its prepared statement's wrapper
\* unreleased and its session wrapper and native session unreleased, and no
\* execute has handed a released session to the driver.
C4_PreparedOutlivesStatement ==
    /\ \A st \in OfKind("Statement") \cap Reachable :
          /\ heap[heap[st].ref].live
          /\ heap[SessionOf(st)].live
          /\ Usable(heap[SessionOf(st)].session)
    /\ "freed_session" \notin faults

\* C4 witness: a statement the host holds whose prepared statement, session
\* and cluster it has dropped, after the collector has finalized something.
C4_Witness ==
    \E st \in Callable("Statement") :
        /\ ~heap[heap[st].ref].rooted
        /\ ~heap[SessionOf(st)].rooted
        /\ ~heap[heap[SessionOf(st)].ref].rooted
        /\ \E o \in Ids : ~heap[o].live

\* ---- C5
\* C5: whatever the collector finalizes, every prepared statement, statement,
\* batch and future the host can still reach has its session wrapper and its
\* cluster wrapper unreleased, so the native session is unreleased.
C5_SessionOutlivesChildren ==
    \A o \in Reachable :
        heap[o].kind \in {"Prepared", "Statement", "Batch", "Future"}
        => /\ heap[SessionOf(o)].live
           /\ heap[heap[SessionOf(o)].ref].live
           /\ Usable(heap[SessionOf(o)].session)

\* C5 witness: a future the host holds whose session and cluster it has
\* dropped, after the collector has finalized something.
C5_Witness ==
    \E f \in Callable("Future") :
        /\ ~heap[heap[f].ref].rooted
        /\ ~heap[heap[heap[f].ref].ref].rooted
        /\ \E o \in Ids : ~heap[o].live

\* ---- C6
\* C6: after close() no operation on the session or on a handle derived from
\* it reaches the driver with a null session handle.
C6_NoNullSession == "null_session" \notin faults

\* ---- C7
\* C7: a value(timeout) that times out on a pending operation raises the
\* local timeout error and changes neither the operation nor its
\* continuations; whatever value() returns afterwards is the operation's
\* outcome, as if no wait had timed out.
C7_TimeoutLeavesOperation ==
    /\ [](\A i \in DOMAIN returned :
            LET w == heap[returned[i].f]
                v == returned[i].v
            IN  \/ v = Value("timeout", <<>>, 0, "Future timed out")
                \/ /\ w.future.state = "error"
                   /\ v = Value("error", <<>>, 0,
                                "Cassandra future execution error: " \o w.future.msg)
                \/ /\ w.future.state = "ok"
                   /\ IsSuccessOf(w, v))
    /\ [][(/\ Len(returned') = Len(returned) + 1
           /\ returned'[Len(returned')].v.kind = "timeout")
          => /\ ~cass_future_ready(heap[returned'[Len(returned')].f].future)
             /\ heap' = heap
             /\ fired' = fired
             /\ decodes' = decodes]_vars

\* C7 witness: a wait that timed out, then a value() that returned rows.
C7_Witness ==
    /\ Len(returned) = 2
    /\ returned[1].v.kind = "timeout"
    /\ returned[2].v.kind = "rows"
    /\ returned[2].v.rows # <<>>
    /\ \E f \in Futures : heap[f].callback_proc # Nil

\* ---- C8
\* C8: a continuation is invoked only by a step of executeCallbacks(), and
\* executeCallbacks() on a pending operation invokes nothing and changes
\* nothing.
C8_FiredOnlyOnRequest ==
    [][/\ fired' # fired => lastOp'.op = "execute_callbacks"
       /\ (/\ lastOp'.op = "execute_callbacks"
           /\ \A f \in Futures : ~cass_future_ready(heap'[f].future))
          => /\ heap' = heap
             /\ fired' = fired
             /\ decodes' = decodes]_vars

\* C8 witness: a succeeded operation with a continuation registered after it
\* completed, read by value(), and nothing invoked.
C8_Witness ==
    /\ fired = <<>>
    /\ returned # <<>>
    /\ lastOp.op = "then"
    /\ \E f \in Futures :
          /\ heap[f].future.state = "ok"
          /\ heap[f].callback_proc # Nil

\* ---- C9
\* C9: whatever executeCallbacks() invoked was a registered continuation
\* matching the outcome: the success continuation of a succeeded operation
\* with its decoded value, or the failure continuation of a failed operation
\* with the driver's message.
C9_MatchingContinuationOnly ==
    \A i \in DOMAIN fired :
        LET e == fired[i]
            w == heap[e.f]
        IN  /\ e.proc \in Blocks
            /\ \/ /\ e.slot = "callback_proc"
                  /\ w.future.state = "ok"
                  /\ IsSuccessOf(w, e.arg)
               \/ /\ e.slot = "error_callback_proc"
                  /\ w.future.state = "error"
                  /\ e.arg = Value("message", <<>>, 0, w.future.msg)

\* C9 witness: the failure continuation invoked with the driver's message
\* while a success continuation is registered too.
C9_Witness ==
    \E i \in DOMAIN fired :
        /\ fired[i].slot = "error_callback_proc"
        /\ fired[i].arg.msg \in Messages
        /\ heap[fired[i].f].callback_proc # Nil

\* ---- C10
\* C10: then(c) makes c the one success continuation and leaves the failure
\* continuation alone, rescue(c) the reverse, and what executeCallbacks()
\* invokes is the continuation registered last.
C10_OneContinuationEach ==
    [][\A f \in Futures :
         /\ (lastOp' # lastOp /\ lastOp'.op = "then" /\ lastOp'.arg # Nil)
            => /\ heap'[f].callback_proc = lastOp'.arg
               /\ heap'[f].error_callback_proc = heap[f].error_callback_proc
         /\ (lastOp' # lastOp /\ lastOp'.op = "rescue" /\ lastOp'.arg # Nil)
            => /\ heap'[f].error_callback_proc = lastOp'.arg
               /\ heap'[f].callback_proc = heap[f].callback_proc
         /\ (Len(fired') = Len(fired) + 1 /\ fired'[Len(fired')].f = f)
            => fired'[Len(fired')].proc =
                  (IF fired'[Len(fired')].slot = "callback_proc"
                   THEN heap[f].callback_proc ELSE heap[f].error_callback_proc)]_vars

\* C10 witness: c1 invoked, then then(c2), then c2 invoked.
C10_Witness ==
    /\ Len(fired) = 2
    /\ fired[1].slot = "callback_proc"
    /\ fired[2].slot = "callback_proc"
    /\ fired[1].proc = "c1"
    /\ fired[2].proc = "c2"

\* ---- C11
\* C11: value(), with or without a timeout, called on a future whose
\* operation has failed raises the driver error, whose message is
\* "Cassandra future execution error: " followed by the driver's message.
C11_FailureRaises ==
    (lastOp.op = "value" /\ Len(returned) > 0)
    => LET e == returned[Len(returned)]
       IN  heap[e.f].future.state = "error"
           => /\ e.v.kind = "error"
              /\ e.v.msg = "Cassandra future execution error: " \o heap[e.f].future.msg

\* C11 witness: value() was called on a failed future and raised.
C11_Witness ==
    /\ lastOp.op = "value"
    /\ Len(returned) > 0
    /\ heap[returned[Len(returned)].f].future.state = "error"
    /\ returned[Len(returned)].v.kind = "error"

\* ---- C12
\* The bind error of index: CassandraCpp::Error whose message gives the
\* index in decimal after "Failed to bind parameter at index ".
NamesIndex(raised, index) ==
    /\ raised.class = "CassandraCpp::Error"
    /\ Len(raised.message) > Len(Decimal(index))
    /\ SubSeq(raised.message, 2, Len(Decimal(index)) + 1) = Decimal(index)

BoundWire == heap[CHOOSE st \in OfKind("Statement") : TRUE].params[1]
BindDone == lastOp.op = "bind"
BindOk == BindDone /\ lastOp.call.rc = CASS_OK_rc
WithoutNil(items) == SelectSeq(items, LAMBDA e : e # Qnil)

C14_IntegerWidth ==
    (BindDone /\ lastOp.call.value.t = "Integer" /\ FitsInt64(lastOp.call.value.i))
    => LET n == lastOp.call.value.i
           narrow == /\ NumLeq(Num(-1, INT32_MAX, 0), n)
                     /\ NumLeq(n, Num(0, 0, INT32_MAX))
       IN  /\ BindOk
           /\ BoundWire.type = (IF narrow THEN "INT" ELSE "BIGINT")
           /\ ~BoundWire.null
           /\ BoundWire.i = n
           /\ convert_cass_value_to_ruby(BoundWire) = lastOp.call.value

\* C14 witness: 2^31, the first integer above the int range, bound as BIGINT.
C14_Witness ==
    /\ BindOk
    /\ lastOp.call.value = HostInteger(Num(0, 1, 0))
    /\ BoundWire.type = "BIGINT"
    /\ convert_cass_value_to_ruby(BoundWire) = HostInteger(Num(0, 1, 0))

\* ---- C15
\* A string of 36 bytes with dashes at offsets 8, 13, 18 and 23.
DashedShape(str) ==
    /\ Len(str) = 36
    /\ \A i \in {8, 13, 18, 23} : str[i + 1] = "-"
\* The text of a uuid: that shape with hex digits everywhere else.
UuidText(str) ==
    /\ DashedShape(str)
    /\ \A i \in 0..35 : i \notin {8, 13, 18, 23} => str[i + 1] \in HexDigits

\* C15: a string of the dashed shape is bound as UUID when it parses as a
\* uuid, and as TEXT or BLOB, without an error, when it does not; a string
\* of any other shape is never bound as UUID.
C15_UuidDetection ==
    (BindDone /\ lastOp.call.value.t = "String")
    => LET str == lastOp.call.value.s
       IN  /\ BindOk
           /\ ~BoundWire.null
           /\ (DashedShape(str) /\ UuidText(str)) => BoundWire.type = "UUID"
           /\ (DashedShape(str) /\ ~UuidText(str)) => BoundWire.type \in {"TEXT", "BLOB"}
           /\ ~DashedShape(str) => BoundWire.type # "UUID"

\* C15 witness: a dashed string with a letter that is no hex digit was
\* bound as TEXT.
C15_Witness ==
    /\ BindOk
    /\ lastOp.call.value = HostString(Shaped("g"), "UTF-8")
    /\ BoundWire = WireText(Shaped("g"))

\* ---- C16
\* The string is tagged binary, or holds a null byte.
BinaryPayload(value) ==
    \/ value.enc = "ASCII-8BIT"
    \/ \E i \in 1..Len(value.s) : value.s[i] = NUL

\* C16 as stated: every string with a null byte or tagged binary is bound
\* as BLOB and every other string as TEXT.
C16_AsStated ==
    (BindDone /\ lastOp.call.value.t = "String")
    => /\ BindOk
       /\ BoundWire.type = (IF BinaryPayload(lastOp.call.value) THEN "BLOB" ELSE "TEXT")

\* C16: a string that is not the text of a uuid is bound as BLOB when it
\* holds a null byte or is tagged binary and as TEXT otherwise, with its
\* bytes as they are; the text of a uuid is bound as UUID whatever its tag.
C16_StringDisambiguation ==
    (BindDone /\ lastOp.call.value.t = "String")
    => /\ BindOk
       /\ ~BoundWire.null
       /\ IF UuidText(lastOp.call.value.s)
          THEN BoundWire.type = "UUID"
          ELSE /\ BoundWire.type =
                     (IF BinaryPayload(lastOp.call.value) THEN "BLOB" ELSE "TEXT")
               /\ BoundWire.s = lastOp.call.value.s

\* C16 witness: a UTF-8 string with a null byte in the middle was bound as
\* BLOB.
C16_Witness ==
    /\ BindOk
    /\ lastOp.call.value = HostString(<<"a", NUL, "b">>, "UTF-8")
    /\ BoundWire.type = "BLOB"
    /\ BoundWire.s = <<"a", NUL, "b">>

\* ---- C17
\* Ruby's ==: Strings are equal when their bytes are and they have one
\* encoding or are ASCII only; Arrays element by element; Sets and Hashes
\* whatever the order of their elements and pairs.
RECURSIVE RubyEq(_, _)
RubyEq(x, y) ==
    IF x.t # y.t THEN FALSE
    ELSE CASE x.t = "String" ->
                /\ x.s = y.s
                /\ x.enc = y.enc \/ (AsciiOnly(x.s) /\ AsciiOnly(y.s))
           [] x.t = "Array" ->
                /\ Len(x.items) = Len(y.items)
                /\ \A i \in 1..Len(x.items) : RubyEq(x.items[i], y.items[i])
           [] x.t = "Set" ->
                /\ Len(x.items) = Len(y.items)
                /\ \A i \in 1..Len(x.items) :
                      \E j \in 1..Len(y.items) : RubyEq(x.items[i], y.items[j])
           [] x.t = "Hash" ->
                /\ Len(x.items) = Len(y.items)
                /\ \A i \in 1..(Len(x.items) \div 2) :
                      \E j \in 1..(Len(y.items) \div 2) :
                         /\ RubyEq(x.items[2 * i - 1], y.items[2 * j - 1])
                         /\ RubyEq(x.items[2 * i], y.items[2 * j])
           [] OTHER -> x = y

\* What the host reads back: the decoding of what was bound.
Decoded == convert_cass_value_to_ruby(BoundWire)
\* The element read back when it is bound as an element on its own.
ElementBack(e) ==
    convert_cass_value_to_ruby(bind_ruby_value_to_collection(e).out[1])

IsCollection(value) == value.t \in {"Array", "Hash", "Set"}

\* C18: a bound collection with a collection as element, key or value
\* holds a wire collection for it, and reads back as the value bound.
C18_NestedCollections ==
    (/\ BindOk
     /\ IsCollection(lastOp.call.value)
     /\ \E i \in 1..Len(lastOp.call.value.items) :
           IsCollection(lastOp.call.value.items[i]))
    => /\ \E i \in 1..Len(BoundWire.items) :
             BoundWire.items[i].type \in {"LIST", "SET", "MAP"}
       /\ RubyEq(Decoded, lastOp.call.value)

\* ---- C19
\* The values of the variants Text, Bytes, Uuid, Int32, Int64, Bool,
\* Float64, List, Set and Map: nil, Time and other objects are none, nor is
\* an Integer beyond the long long range.
RECURSIVE IsVariant(_)
IsVariant(value) ==
    CASE value.t \in {"String", "TrueClass", "FalseClass", "Float"} -> TRUE
      [] value.t = "Integer" -> FitsInt64(value.i)
      [] IsCollection(value) ->
            \A i \in 1..Len(value.items) : IsVariant(value.items[i])
      [] OTHER -> FALSE

\* C19: every value of these variants is bound without error and reads
\* back as a value == to it.
C19_RoundTrip ==
    (BindDone /\ IsVariant(lastOp.call.value))
    => /\ BindOk
       /\ RubyEq(Decoded, lastOp.call.value)

\* ---- C20
\* rows is the decoding of result: as many rows, in the order of the
\* result, each with one entry for each column in the order of the columns,
\* the entry of a column being its name and its decoded value.
RowsMatch(rows, result) ==
    /\ Len(rows) = Len(result.rows)
    /\ \A r \in 1..Len(rows) :
          /\ Len(rows[r]) = Len(result.cols)
          /\ \A c \in 1..Len(result.cols) :
                rows[r][c] = <<result.cols[c],
                               convert_cass_value_to_ruby(result.rows[r][c])>>

\* C20: the rows returned by session.execute and statement.execute, the
\* rows value returns and the rows a success continuation is called with
\* are the decoding of the driver's result.
C20_RowsDecoded ==
    /\ (lastOp.op \in {"session_execute", "statement_execute"}
            /\ lastOp.call.rc = CASS_OK_rc /\ Len(returned) > 0)
       => /\ returned[Len(returned)].v.kind = "rows"
          /\ RowsMatch(returned[Len(returned)].v.rows, lastOp.call.result)
    /\ (lastOp.op = "value" /\ Len(returned) > 0
            /\ returned[Len(returned)].v.kind = "rows")
       => RowsMatch(returned[Len(returned)].v.rows,
                    heap[returned[Len(returned)].f].future.result)
    /\ (lastOp.op = "execute_callbacks" /\ Len(fired) > 0
            /\ fired[Len(fired)].arg.kind = "rows")
       => RowsMatch(fired[Len(fired)].arg.rows, heap[fired[Len(fired)].f].future.result)

\* C20 witness: statement.execute returned the three rows of three columns,
\* then value returned the two rows of two columns of an asynchronous
\* execute.
C20_Witness ==
    /\ lastOp.op = "value"
    /\ Len(returned) = 2
    /\ returned[1].f \in OfKind("Statement")
    /\ returned[1].v.kind = "rows"
    /\ Len(returned[1].v.rows) = 3
    /\ Len(returned[1].v.rows[1]) = 3
    /\ returned[2].f \in OfKind("Future")
    /\ returned[2].v.kind = "rows"
    /\ Len(returned[2].v.rows) = 2
    /\ Len(returned[2].v.rows[2]) = 2

\* ---- C21
\* The column that was converted.
ColumnRead == lastOp.call.result.rows[1][1]

\* C21: a null column converts to nil whatever its type, and what a column
\* of a type the switch does not name converts to is returned for no column
\* of a type it names.
C21_SentinelDistinct ==
    lastOp.op = "convert"
    => /\ ColumnRead.null => lastOp.call.value = Qnil
       /\ (~ColumnRead.null /\ ColumnRead.type \in UnsupportedTypes)
          => \A other \in WireValues :
                other.type \in SupportedTypes
                => convert_cass_value_to_ruby(other) # lastOp.call.value

\* ---- C22

\* C22: a collection of integers of the long long range is bound without
\* error, each integer as INT when it lies in [-2^31, 2^31 - 1] and as
\* BIGINT otherwise.
C22_ElementWidth ==
    (/\ BindDone
     /\ IsCollection(lastOp.call.value)
     /\ Len(lastOp.call.value.items) > 0
     /\ \A i \in 1..Len(lastOp.call.value.items) :
           /\ lastOp.call.value.items[i].t = "Integer"
           /\ FitsInt64(lastOp.call.value.items[i].i))
    => /\ BindOk
       /\ Len(BoundWire.items) = Len(lastOp.call.value.items)
       /\ \A i \in 1..Len(BoundWire.items) :
             /\ BoundWire.items[i].i = lastOp.call.value.items[i].i
             /\ BoundWire.items[i].type =
                   (IF /\ NumLeq(Num(-1, INT32_MAX, 0), BoundWire.items[i].i)
                       /\ NumLeq(BoundWire.items[i].i, Num(0, 0, INT32_MAX))
                    THEN "INT" ELSE "BIGINT")

\* ---- C23
\* What a key or value is appended as when it is appended alone.
ItemAlone(e) == bind_ruby_value_to_collection(e).out

\* C23: a bound Hash is a wire map of an even number of items, each key
\* followed by the value the Hash holds for it, and no Hash is refused for
\* a key without a value.
C23_MapPairs ==
    (BindDone /\ lastOp.call.value.t = "Hash")
    => /\ lastOp.call.rc # "CASS_ERROR_LIB_INVALID_ITEM_COUNT"
       /\ BindOk
          => /\ Len(BoundWire.items) % 2 = 0
             /\ \A j \in 1..(Len(BoundWire.items) \div 2) :
                   \E i \in 1..(Len(lastOp.call.value.items) \div 2) :
                      /\ ItemAlone(lastOp.call.value.items[2 * i - 1])
                            = <<BoundWire.items[2 * j - 1]>>
                      /\ ItemAlone(lastOp.call.value.items[2 * i])
                            = <<BoundWire.items[2 * j]>>

\* ---- C24
\* C24: add_statement with a query and parameters releases the throwaway
\* native statement exactly once on every path; when binding parameter i
\* fails the error names index i; and whenever the call raises, the entries
\* and the consistency of the batch are as they were.
C24_ThrowawayReleased ==
    [][lastOp'.op = "batch_add_statement" /\ lastOp'.call.made = <<"statement">>
       => /\ lastOp'.call.freed = <<"statement">>
          /\ lastOp'.arg = "bind"
                => NamesIndex(lastOp'.call.raised, lastOp'.call.index)
          /\ lastOp'.arg # Nil
                => \A b \in OfKind("Batch") :
                      /\ heap'[b].entries = heap[b].entries
                      /\ heap'[b].consistency = heap[b].consistency]_vars

\* ---- C26
\* C26: for the same statement and the same outcome of the driver,
\* statement.execute and statement.execute_async followed by value submit
\* one native request each and return the same rows (none when the driver
\* hands back no result) or raise with the driver's error. AsyncValue is
\* what value() hands back for an execute whose future completed with the
\* outcome; two returns are the same with the same rows, or with an error
\* carrying the driver's message.
C26_BlockingMatchesAsync ==
    [][LET AsyncValue(outcome) ==
               future_value(future_new(outcome, 0, FUTURE_TYPE_EXECUTE), FALSE, 0)
           SameReturn(blocking, async, outcome) ==
               IF outcome.state = "ok"
               THEN blocking.kind = "rows" /\ async.kind = "rows"
                    /\ blocking.rows = async.rows
               ELSE /\ blocking.kind = "error" /\ async.kind = "error"
                    /\ blocking.msg =
                          "Cassandra prepared statement execution error: " \o outcome.msg
                    /\ async.msg = "Cassandra future execution error: " \o outcome.msg
           CallOutcomes(call) ==
               {o \in BlockingOutcomes \cup {NullOutcome} :
                   /\ (o.state = "ok") = (call.rc = CASS_OK_rc)
                   /\ o.result = call.result}
       IN  /\ lastOp'.op = "statement_execute" /\ lastOp'.call.made # <<>>
              => /\ lastOp'.call.made = <<"future">>
                 /\ Len(returned') = Len(returned) + 1
                 /\ \A o \in CallOutcomes(lastOp'.call) :
                       SameReturn(returned'[Len(returned')].v, AsyncValue(o), o)
                 /\ faults' = faults
           /\ lastOp'.op = "statement_execute_async"
              => /\ Len(heap') = Len(heap) + 1
                 /\ heap'[Len(heap')].kind = "Future"
           /\ lastOp'.op = "value" => heap' = heap]_vars

\* ---- C27
\* C27: when session.execute, session.prepare, statement.execute or
\* batch.execute has returned or raised, every native future the call
\* created has been released.
C27_FuturesReleased ==
    lastOp.op \in {"session_execute", "session_prepare", "statement_execute",
                   "batch_execute"}
    => lastOp.call.freed = lastOp.call.made

\* ---- C25
\* C25: a bind(i, v) that succeeds returns the statement it was called on
\* and writes slot i of that statement alone: its other slots, every other
\* statement made from the same prepared statement, and the prepared
\* statement are as they were.
C25_BindIsolated ==
    [][lastOp'.op = "bind" /\ lastOp'.call.raised = NoError
       => LET st == lastOp'.call.self
              i == lastOp'.call.index + 1
          IN  /\ st \in OfKind("Statement")
              /\ Len(heap') = Len(heap)
              /\ \A o \in Ids : o # st => heap'[o] = heap[o]
              /\ heap'[st] = [heap[st] EXCEPT !.params = heap'[st].params]
              /\ Len(heap'[st].params) = Len(heap[st].params)
              /\ \A j \in 1..Len(heap[st].params) :
                    j # i => heap'[st].params[j] = heap[st].params[j]
              /\ heap'[st].params[i] # Unset]_vars

\* C25 witness: two statements of one prepared statement hold different
\* values in their first slot, the last step being a bind that succeeded on
\* one of them while the other was already bound.
C25_Witness ==
    /\ lastOp.op = "bind"
    /\ lastOp.call.raised = NoError
    /\ \E a \in OfKind("Statement"), b \in OfKind("Statement") :
          /\ a # b
          /\ heap[a].ref = heap[b].ref
          /\ lastOp.call.self = a
          /\ heap[b].params[1] # Unset
          /\ heap[a].params[1] # heap[b].params[1]
          /\ heap[a].params[2] = Unset

C29_CloseIdempotent ==
    [][lastOp'.op = "session_close"
       => LET s == lastOp'.call.recv
              closedNow == {h \in DOMAIN sessions : sessions'[h] # sessions[h]}
          IN  /\ s \in OfKind("Session")
              /\ lastOp'.call.raised = NoError
              /\ lastOp'.call.freed = lastOp'.call.made
              /\ faults' = faults
              /\ IF heap[s].session # 0
                 THEN /\ lastOp'.call.made = <<"future">>
                      /\ closedNow = {heap[s].session}
                      /\ sessions[heap[s].session] = "open"
                      /\ sessions'[heap[s].session] = "closed"
                 ELSE /\ lastOp'.call.made = <<>>
                      /\ closedNow = {}
                      /\ heap' = heap]_vars

\* C29 witness: a close on a wrapper whose session was closed before, so
\* the wrapper holds no session and the last close made no native call.
C29_Witness ==
    /\ lastOp.op = "session_close"
    /\ lastOp.call.made = <<>>
    /\ heap[lastOp.call.recv].session = 0
    /\ \E h \in DOMAIN sessions : sessions[h] = "closed"

\* ---- C30
\* C30: once the cluster wrapper has been finalized, every native session
\* and connect future that connect() created, on a connection that
\* succeeded or failed, has been released.
C30_ConnectsReleased ==
    \A c \in OfKind("Cluster") :
        ~heap[c].live => \A h \in DOMAIN sessions : sessions[h] = "freed"

====
